---- MODULE Spec2Model ----
(***************************************************************************)
(* git_sync: the push and pull orchestrators (GitPushHandler.push,         *)
(* GitPullHandler.pull) over the local mirror manager and bundle codec     *)
(* (type GIT), for one (url, branch) key under one scratch root.           *)
(*                                                                         *)
(* History is a linear chain of commits 1..MaxCommit; a repository is      *)
(* described by the tip it holds (0 = no commit).  A bundle is the pair    *)
(* (prereq, tip): it carries the commits prereq+1..tip and requires        *)
(* commit prereq to be present (prereq = 0: a complete bundle).            *)
(*                                                                         *)
(* The remote server, go-git's transport and the git subprocesses are the  *)
(* environment: every call into them may fail, and what a failed           *)
(* subprocess prints on stderr is the environment's choice.                *)
(***************************************************************************)
EXTENDS Integers, Sequences, FiniteSets, TLC

VARIABLES
    remote,   \* the remote repository: [exists, tip]
    mirror,   \* the local mirror at the resolved workDir: [stage, tip]
    req,      \* the request being served (pc = "idle": none)
    resp,     \* what the handler wrote to the http.ResponseWriter
    prev,     \* the previous request, if it succeeded and nothing changed since
    faulty,   \* some operation so far failed for a reason of its own
    probe,    \* a pure function under study: its name, its input, its result
    inflight, \* two requests served at once for one key: where each one is
    tempDirs  \* the names of the directories in the scratch root

vars == <<remote, mirror, req, resp, prev, faulty, probe, inflight, tempDirs>>

\* ---------------------------------------------------------------- bounds
MaxCommit == 2
MaxTime == 3
MaxSince == 2
MaxAfter == 3
MaxName == 2
MaxInflight == 2
MaxText == 4
MaxLines == 3

\* ------------------------------------------------------- program constants
StatusOK == 200
StatusNoContent == 204
StatusBadRequest == 400
StatusUnauthorized == 401
StatusNotFound == 404
StatusConflict == 409
StatusInternalServerError == 500

\* base64.StdPadding, as a digit beyond the 64 of the alphabet
StdPadding == 64

PrereqMarker == "Repository lacks these prerequisite commits"
RefuseMarker == "Refusing to create empty bundle"

\* ------------------------------------------------------------- data model
Commits == 1..MaxCommit
Tips == 0..MaxCommit

\* the commit date of commit c (dates grow along the chain)
CommitTime(c) == c

\* RemoteRepo.Token as the remote sees it
Tokens == {"good", "bad"}

\* the stderr of a failed subprocess, as the set of marker phrases it contains
StdErrs == SUBSET {PrereqMarker, RefuseMarker}

\* strings.Contains(cmdErr.StdErr, marker)
Contains(stderr, marker) == marker \in stderr

\* request bodies of a push: real bundles, and bytes that are no bundle
Bundles == {[ok |-> TRUE, prereq |-> p, tip |-> t] : p \in Tips, t \in Commits}
RealBundles == {b \in Bundles : b.prereq < b.tip}
Garbage == [ok |-> FALSE, prereq |-> 0, tip |-> 0]
BundleInputs == RealBundles \cup {Garbage}

\* BundleOptions: Since = 0 and After = 0 are Go's zero values (no filter)
BundleOptions == [Since : 0..MaxSince, After : 0..MaxAfter]

\* BundleOptions.HasAny
HasAny(opt) == opt.Since # 0 \/ opt.After # 0

Max(a, b) == IF a >= b THEN a ELSE b

\* ------------------------------------------------------------- the mirror
\* stage counts the steps of repository creation that took effect:
\*   0 no repository at workDir, 1 PlainInit, 2 CreateRemote, 3 CreateBranch,
\*   4 HEAD points at refs/heads/<branch> (a clone yields 4 at once).
\* tip is the tip of the history checked out at HEAD.
NoMirror == [stage |-> 0, tip |-> 0]

\* the tip of refs/heads/<branch>: HEAD is that branch only from stage 4 on
BranchTip(m) == IF m.stage = 4 THEN m.tip ELSE 0

\* GIT.ExistsLocal: git.PlainOpen(workDir) finds a repository
ExistsLocal(m) == m.stage >= 1

\* ------------------------------------------------------ go-git transport
\* What the remote answers to a fetch (clone or pull) when it answers at all.
FetchAnswer(r) ==
    IF ~r.exists THEN "notfound"
    ELSE IF r.tip = 0 THEN "empty"
    ELSE "ok"

\* The errors go-git's fetch can end with for a token: a rejected credential
\* surfaces as ErrAuthenticationRequired ("authn") or ErrAuthorizationFailed
\* ("authz"); a remote that allows anonymous reads answers a bad token too;
\* "other" is any other transport failure.
FetchOutcomes(r, token) ==
    {FetchAnswer(r), "other"} \cup (IF token = "bad" THEN {"authn", "authz"} ELSE {})

\* an initialisation that leaves HEAD as PlainInit set it
initLocal_noHead(failAt) ==
    IF failAt = 0
    THEN [mirror |-> [stage |-> 3, tip |-> 0], wt |-> TRUE, err |-> "nil"]
    ELSE [mirror |-> [stage |-> failAt - 1, tip |-> 0], wt |-> FALSE, err |-> "other"]

\* GIT.initLocal, failing at step failAt (0: no step fails):
\*   1 PlainInit, 2 CreateRemote, 3 CreateBranch, 4 Storer.SetReference(HEAD)
initLocal(failAt) ==
    IF failAt = 0
    THEN [mirror |-> [stage |-> 4, tip |-> 0], wt |-> TRUE, err |-> "nil"]
    ELSE [mirror |-> [stage |-> failAt - 1, tip |-> 0], wt |-> FALSE, err |-> "other"]

\* GIT.cloneRepoToLocalTemp for the fetch outcome x (PlainClone removes what it
\* created when it fails)
cloneRepoToLocalTemp(r, x, failAt) ==
    CASE x = "ok"       -> [mirror |-> [stage |-> 4, tip |-> r.tip], wt |-> TRUE, err |-> "nil"]
      [] x = "empty"    -> initLocal(failAt)
      [] x = "notfound" -> [mirror |-> NoMirror, wt |-> FALSE, err |-> "nil"]
      [] x = "authn"    -> [mirror |-> NoMirror, wt |-> FALSE, err |-> "auth"]
      [] OTHER          -> [mirror |-> NoMirror, wt |-> FALSE, err |-> "other"]

\* GIT.pullRepoToLocalTemp for the fetch outcome x; openFails: getWorktree fails.
\* Worktree.Pull needs the remote "origin" (stage >= 2); it answers
\* NoErrAlreadyUpToDate or nil when the remote has commits.
pullRepoToLocalTemp(m, r, x, openFails) ==
    IF openFails \/ m.stage < 2
    THEN [mirror |-> m, wt |-> FALSE, err |-> "other"]
    ELSE CASE x = "ok"    -> [mirror |-> [m EXCEPT !.tip = Max(m.tip, r.tip)],
                              wt |-> TRUE, err |-> "nil"]
           [] x = "authz" -> [mirror |-> m, wt |-> FALSE, err |-> "auth"]
           [] OTHER       -> [mirror |-> m, wt |-> FALSE, err |-> "other"]

\* a sync that clones whatever is at workDir
SyncRepoToLocalTemp_alwaysClone(m, r, x, failAt, openFails) ==
    cloneRepoToLocalTemp(r, x, failAt)

\* GIT.SyncRepoToLocalTemp: clone if no local repository, otherwise pull
SyncRepoToLocalTemp(m, r, x, failAt, openFails) ==
    IF ExistsLocal(m)
    THEN pullRepoToLocalTemp(m, r, x, openFails)
    ELSE cloneRepoToLocalTemp(r, x, failAt)

\* ----------------------------------------------------------- the probes
\* GIT.hasLocalBranch: the branch section of the repository's config
hasLocalBranch(m) == m.stage >= 3

\* GIT.hasLocalCommits: refs/heads/<branch> resolves to a commit
hasLocalCommits(m) == BranchTip(m) > 0

\* ----------------------------------------------------------- bundle codec
\* the commit ID as git prints it
CommitID(c) == ToString(c)

BranchRef == "refs/heads/branch"

\* a creation that prefers the after filter
BundleFilter_afterFirst(opt) ==
    IF opt.After # 0 THEN [kind |-> "after", value |-> opt.After]
    ELSE IF opt.Since # 0 THEN [kind |-> "since", value |-> opt.Since]
    ELSE [kind |-> "none", value |-> 0]

\* GIT.CreateBundleFromLocal: the filter handed to "git bundle create"
\* (--since=<n>.seconds.ago when Since is set, else --after=<t> when After is set)
BundleFilter(opt) ==
    IF opt.Since # 0 THEN [kind |-> "since", value |-> opt.Since]
    ELSE IF opt.After # 0 THEN [kind |-> "after", value |-> opt.After]
    ELSE [kind |-> "none", value |-> 0]

\* the date before which git leaves commits out, at clock reading now
Cutoff(filter, now) ==
    CASE filter.kind = "since" -> now - filter.value
      [] filter.kind = "after" -> filter.value
      [] OTHER                 -> 0

\* "git bundle create - [filter] <branch>" on the mirror: the commits of the
\* branch not older than the cutoff; none left: git refuses the empty bundle
GitBundleCreate(m, filter, now) ==
    LET tip == BranchTip(m)
        old == {c \in 1..tip : CommitTime(c) < Cutoff(filter, now)}
    IN  IF tip = 0
        THEN [err |-> "cmd", stderr |-> {}, bundle |-> Garbage]
        ELSE IF Cardinality(old) = tip
        THEN [err |-> "cmd", stderr |-> {RefuseMarker}, bundle |-> Garbage]
        ELSE [err |-> "nil", stderr |-> {},
              bundle |-> [ok |-> TRUE, prereq |-> Cardinality(old), tip |-> tip]]

\* GIT.CreateBundleFromLocal, the subprocess running as git does
CreateBundleFromLocal(m, opt, now) == GitBundleCreate(m, BundleFilter(opt), now)

\* the results of a subprocess that fails for a reason of its own
CmdFailures == {[err |-> "cmd", stderr |-> e, bundle |-> Garbage] : e \in StdErrs}

\* "git bundle list-heads -" on a bundle this program created: one line per ref,
\* each line given as its fields (the line split at single spaces)
GitListHeads(b) == << <<CommitID(b.tip), BranchRef>> >>

\* other stdout texts of list-heads: no line, two heads, lines of another shape
OtherListings ==
    { <<>>,
      << <<CommitID(1), BranchRef>>, <<CommitID(2), "refs/heads/other">> >>,
      << <<CommitID(1)>> >>,
      << <<CommitID(1), "", BranchRef>> >> }

RECURSIVE ParseLines(_, _)
ParseLines(lines, heads) ==
    IF lines = <<>> THEN [err |-> "nil", heads |-> heads]
    ELSE IF Len(Head(lines)) # 2 THEN [err |-> "parse", heads |-> <<>>]
    ELSE ParseLines(Tail(lines),
                    Append(heads, [CommitID |-> Head(lines)[1], Ref |-> Head(lines)[2]]))

\* ParseBundleListHeadsOutput
ParseBundleListHeadsOutput(output) == ParseLines(output, <<>>)

\* a hash of the head commit alone
createHash_headOnly(head, opt) == <<head.CommitID>>

\* createHash: SHA-256 of "<CommitID>|<After>|<Since>", taken as injective
createHash(head, opt) == <<head.CommitID, opt.After, opt.Since>>

\* ------------------------------------------------------------ the request
NoResp == [status |-> 0, text |-> "", head |-> "", partial |-> "", hash |-> <<>>,
           bytes |-> FALSE, bundle |-> Garbage, shows |-> {}, since |-> -1]

NoOpt == [Since |-> 0, After |-> 0]

\* ------------------------------------------- the arguments of a request
\* the query parameters "repository" and "branch" and the Authorization header
\* (scheme "none": no header; the token is what follows "Bearer ")
NoQuery == [repository |-> "", branch |-> "", auth |-> [scheme |-> "none", token |-> ""]]

Queries == [repository : {"", "u"}, branch : {"", "b"},
            auth : {[scheme |-> "none", token |-> ""], [scheme |-> "Basic", token |-> "good"],
                    [scheme |-> "Bearer", token |-> ""], [scheme |-> "Bearer", token |-> "good"]}]

\* the query of a request with everything in place
Query(token) == [repository |-> "u", branch |-> "b",
                 auth |-> [scheme |-> "Bearer", token |-> token]]

\* extractAuthToken: the token after "Bearer ", an error without that prefix
extractAuthToken(auth) ==
    IF auth.scheme = "none" THEN [token |-> "", err |-> "no Authorization header"]
    ELSE IF auth.scheme # "Bearer" THEN [token |-> "", err |-> "invalid Authorization header"]
    ELSE [token |-> auth.token, err |-> "nil"]

\* extractArgs: the RemoteRepo of a request, or the first thing it lacks
extractArgs(q) ==
    IF q.repository = ""
    THEN [URL |-> q.repository, Branch |-> q.branch, Token |-> "", err |-> "no 'repository' specified"]
    ELSE IF q.branch = ""
    THEN [URL |-> q.repository, Branch |-> q.branch, Token |-> "", err |-> "no 'branch' specified"]
    ELSE LET t == extractAuthToken(q.auth)
         IN  [URL |-> q.repository, Branch |-> q.branch, Token |-> t.token, err |-> t.err]

\* NewGIT: the error it returns for its arguments ("nil": none)
NewGIT(tempDir, remoteRepo) ==
    IF tempDir = "" THEN "tempDir not set"
    ELSE IF remoteRepo.URL = "" THEN "remoteRepo.URL not set"
    ELSE IF remoteRepo.Branch = "" THEN "branch not set"
    ELSE IF remoteRepo.Token = "" THEN "remoteRepo.Token not set"
    ELSE "nil"

\* the directory the handlers are configured with
HandlerTempDir == "tmp"

Idle == [kind |-> "none", pc |-> "idle", token |-> "good", bundle |-> Garbage,
         opt |-> NoOpt, now |-> 0, calls |-> <<>>, faulted |-> FALSE,
         xport |-> "", m0 |-> NoMirror, r0 |-> [exists |-> FALSE, tip |-> 0],
         data |-> Garbage, heads |-> <<>>, scratch |-> [made |-> {}, left |-> {}],
         args |-> NoQuery, cancelAt |-> 0, ops |-> 0, errs |-> 0]

NoPrev == [kind |-> "none", bundle |-> Garbage, opt |-> NoOpt, head |-> "",
           hash |-> <<>>, full |-> FALSE,
           was |-> "none", status |-> 0, empty |-> FALSE]

\* http.Error(w, text, status) and the other writes without a payload
Reply(status, text) == [NoResp EXCEPT !.status = status, !.text = text]

\* CommandError.Error: "Command error '<Message>': <Err> (Status: <ExitCode>,
\* StdErr: <StdErr>)", by the fields it prints
CommandErrorText == {"Message", "Err", "ExitCode", "StdErr"}

\* the text of an error made by errors.Wrap, fmt.Errorf or go-git
WrappedText == {"Message", "Err"}

\* what %v prints of an error, by its kind ("cmd" is a *CommandError)
ErrorText(kind) == IF kind = "cmd" THEN CommandErrorText ELSE WrappedText

\* http.Error(w, fmt.Sprintf("<text>: %v", err), http.StatusInternalServerError)
ReplyErr(text, kind) ==
    [Reply(StatusInternalServerError, text) EXCEPT !.shows = ErrorText(kind)]

Call(op, res) == [op |-> op, res |-> res]

\* what push returns to ServeHTTP: the named result success, which no path
\* assigns
pushReturns(reply) == FALSE

\* what pull returns to ServeHTTP: true after the bundle was written, the
\* unassigned named result on every other path
pullReturns(reply) == reply.status = StatusOK

\* ServeHTTP after push or pull returned: if !success { mErr.Inc() }; req.ops
\* and req.errs count what the request added to metricOps and metricOpsError
ErrorInc(kind, reply) ==
    IF reply = NoResp THEN 0
    ELSE IF kind = "push" THEN (IF pushReturns(reply) THEN 0 ELSE 1)
    ELSE (IF pullReturns(reply) THEN 0 ELSE 1)

SyncRes(rs) ==
    IF rs.err # "nil" THEN rs.err ELSE IF rs.wt THEN "ready" ELSE "notfound"

\* no function under study, no second request
NoProbe == [fn |-> "none", arg |-> <<>>, out |-> <<>>, done |-> FALSE]

NoFlights == <<>>

Init ==
    /\ remote \in [exists : BOOLEAN, tip : {0}]
    /\ mirror = NoMirror
    /\ req = Idle
    /\ resp = NoResp
    /\ prev = NoPrev
    /\ faulty = FALSE
    /\ probe = NoProbe
    /\ inflight = NoFlights
    /\ tempDirs = {}

\* -------------------------------------------------------- the environment
RemoteCreate ==
    /\ req.pc = "idle" /\ ~remote.exists
    /\ remote' = [exists |-> TRUE, tip |-> 0]
    /\ prev' = NoPrev
    /\ UNCHANGED <<mirror, req, resp, faulty>>
    /\ UNCHANGED <<probe, inflight, tempDirs>>

RemoteDelete ==
    /\ req.pc = "idle" /\ remote.exists
    /\ remote' = [exists |-> FALSE, tip |-> 0]
    /\ prev' = NoPrev
    /\ UNCHANGED <<mirror, req, resp, faulty>>
    /\ UNCHANGED <<probe, inflight, tempDirs>>

\* somebody else pushes one more commit to the remote branch
RemoteCommit ==
    /\ req.pc = "idle" /\ remote.exists /\ remote.tip < MaxCommit
    /\ remote' = [remote EXCEPT !.tip = @ + 1]
    /\ prev' = NoPrev
    /\ UNCHANGED <<mirror, req, resp, faulty>>
    /\ UNCHANGED <<probe, inflight, tempDirs>>

\* -------------------------------------------------- GitPullHandler.pull
\* GitPullHandler.ServeHTTP with well-formed arguments, up to NewGIT
RecvPull ==
    /\ req.pc = "idle"
    /\ \E token \in Tokens, opt \in BundleOptions, now \in 1..MaxTime :
         req' = [Idle EXCEPT !.kind = "pull", !.pc = "sync", !.token = token, !.ops = 1,
                             !.args = Query(token),
                             !.opt = opt, !.now = now, !.m0 = mirror, !.r0 = remote]
    /\ resp' = NoResp
    /\ UNCHANGED <<remote, mirror, prev, faulty>>
    /\ UNCHANGED <<probe, inflight, tempDirs>>

\* a pull that answers Unauthorized to every failed sync
pullSyncReply_anyErrUnauthorized(rs) ==
    IF rs.err # "nil" THEN Reply(StatusUnauthorized, "authentication required")
    ELSE IF ~rs.wt THEN Reply(StatusNotFound, "remote repository does not exist")
    ELSE NoResp

\* pull.go: what pull answers to the result of SyncRepoToLocalTemp
pullSyncReply(rs) ==
    IF rs.err = "auth" THEN Reply(StatusUnauthorized, "authentication required")
    ELSE IF rs.err # "nil" THEN ReplyErr("failed to sync repository", rs.err)
    ELSE IF ~rs.wt THEN Reply(StatusNotFound, "remote repository does not exist")
    ELSE NoResp

\* the ways one run of SyncRepoToLocalTemp can go: the fetch outcome x, the
\* failing step of initLocal, and failures of the two PlainOpen calls
SyncRuns(m, r, token) ==
    {[x |-> x, failAt |-> f, openFails |-> o, existsFails |-> e] :
        x \in FetchOutcomes(r, token), f \in 0..4, o \in BOOLEAN, e \in BOOLEAN}

SyncResult(m, r, run) ==
    IF run.existsFails
    THEN [mirror |-> m, wt |-> FALSE, err |-> "other"]
    ELSE SyncRepoToLocalTemp(m, r, run.x, run.failAt, run.openFails)

\* whether the run met a failure that is not the remote's answer to the request
SyncFaulted(m, run) ==
    \/ run.existsFails
    \/ run.x = "other"
    \/ ExistsLocal(m) /\ run.openFails
    \/ ~ExistsLocal(m) /\ run.x = "empty" /\ run.failAt # 0

PullSync ==
    /\ req.kind = "pull" /\ req.pc = "sync"
    /\ \E run \in SyncRuns(mirror, remote, req.token) :
         LET rs == SyncResult(mirror, remote, run)
             reply == pullSyncReply(rs)
         IN  /\ mirror' = rs.mirror
             /\ resp' = reply
             /\ req' = [req EXCEPT
                          !.errs = ErrorInc("pull", resp'),
                          !.calls = Append(@, Call("sync", SyncRes(rs))),
                          !.xport = IF run.existsFails THEN "" ELSE run.x,
                          !.faulted = SyncFaulted(mirror, run),
                          !.pc = IF reply = NoResp THEN "hasLocalBranch" ELSE "done"]
    /\ UNCHANGED <<remote, prev>>
    /\ UNCHANGED <<probe, inflight, tempDirs>>
    /\ faulty' = (faulty \/ req'.faulted)

\* a pull that goes on after a failed branch probe
pullBranchReply_goOnFailed(failed, exists) ==
    IF ~failed /\ ~exists THEN Reply(StatusNoContent, "branch not found")
    ELSE NoResp

\* pull.go: what pull answers to hasLocalBranch (failed: PlainOpen failed)
pullBranchReply(failed, exists) ==
    IF failed THEN ReplyErr("failed to check if branch exists", "plain")
    ELSE IF ~exists THEN Reply(StatusNoContent, "branch not found")
    ELSE NoResp

PullHasBranch ==
    /\ req.kind = "pull" /\ req.pc = "hasLocalBranch"
    /\ \E failed \in BOOLEAN :
         LET exists == ~failed /\ hasLocalBranch(mirror)
             reply == pullBranchReply(failed, exists)
         IN  /\ resp' = reply
             /\ req' = [req EXCEPT
                          !.errs = ErrorInc("pull", resp'),
                          !.calls = Append(@, Call("hasLocalBranch",
                                     IF failed THEN "other" ELSE IF exists THEN "true" ELSE "false")),
                          !.faulted = @ \/ failed,
                          !.pc = IF reply = NoResp THEN "hasLocalCommits" ELSE "done"]
    /\ UNCHANGED <<remote, mirror, prev>>
    /\ UNCHANGED <<probe, inflight, tempDirs>>
    /\ faulty' = (faulty \/ req'.faulted)

\* a pull that goes on to bundle a branch without commits
pullCommitsReply_goOn(failed, hasCommits) ==
    IF failed THEN ReplyErr("failed to check if branch has commits", "plain")
    ELSE NoResp

\* pull.go: what pull answers to hasLocalCommits
pullCommitsReply(failed, hasCommits) ==
    IF failed THEN ReplyErr("failed to check if branch has commits", "plain")
    ELSE IF ~hasCommits THEN Reply(StatusNoContent, "no commits")
    ELSE NoResp

PullHasCommits ==
    /\ req.kind = "pull" /\ req.pc = "hasLocalCommits"
    /\ \E failed \in BOOLEAN :
         LET has == ~failed /\ hasLocalCommits(mirror)
             reply == pullCommitsReply(failed, has)
         IN  /\ resp' = reply
             /\ req' = [req EXCEPT
                          !.errs = ErrorInc("pull", resp'),
                          !.calls = Append(@, Call("hasLocalCommits",
                                     IF failed THEN "other" ELSE IF has THEN "true" ELSE "false")),
                          !.faulted = @ \/ failed,
                          !.pc = IF reply = NoResp THEN "createBundle" ELSE "done"]
    /\ UNCHANGED <<remote, mirror, prev>>
    /\ UNCHANGED <<probe, inflight, tempDirs>>
    /\ faulty' = (faulty \/ req'.faulted)

\* the refusal taken for "nothing new" only under a since filter
pullBundleReply_sinceOnly(opt, res, now) ==
    IF res.err = "nil" THEN NoResp
    ELSE IF res.err = "cmd" /\ opt.Since # 0 /\ Contains(res.stderr, RefuseMarker)
    THEN [Reply(StatusNoContent, "no new commits since") EXCEPT !.since = now - opt.Since]
    ELSE ReplyErr("Failed to create bundle", res.err)

\* pull.go: what pull answers to a failed CreateBundleFromLocal; the text of
\* the 204 names time.Now().Add(-opt.Since), kept in the field since (-1 in
\* every other response)
pullBundleReply(opt, res, now) ==
    IF res.err = "nil" THEN NoResp
    ELSE IF res.err = "cmd" /\ HasAny(opt) /\ Contains(res.stderr, RefuseMarker)
    THEN [Reply(StatusNoContent, "no new commits since") EXCEPT !.since = now - opt.Since]
    ELSE ReplyErr("Failed to create bundle", res.err)

PullCreateBundle ==
    /\ req.kind = "pull" /\ req.pc = "createBundle"
    /\ \E res \in {CreateBundleFromLocal(mirror, req.opt, req.now)} \cup CmdFailures :
         LET reply == pullBundleReply(req.opt, res, req.now)
         IN  /\ resp' = reply
             /\ req' = [req EXCEPT
                          !.errs = ErrorInc("pull", resp'),
                          !.calls = Append(@, Call("createBundle",
                                     IF res.err = "nil" THEN "ok"
                                     ELSE IF Contains(res.stderr, RefuseMarker) THEN "refuse"
                                     ELSE "other")),
                          !.faulted = @ \/ res # CreateBundleFromLocal(mirror, req.opt, req.now),
                          !.data = res.bundle,
                          !.pc = IF reply = NoResp THEN "listHeads" ELSE "done"]
    /\ UNCHANGED <<remote, mirror, prev>>
    /\ UNCHANGED <<probe, inflight, tempDirs>>
    /\ faulty' = (faulty \/ req'.faulted)

\* a response built from the first head of however many were listed
pullHeadsReply_firstHead(opt, data, cmdFails, parsed) ==
    IF cmdFails \/ parsed.err # "nil"
    THEN ReplyErr("Failed to get bundle info", IF cmdFails THEN "cmd" ELSE "plain")
    ELSE IF Len(parsed.heads) < 1 THEN Reply(StatusInternalServerError, "Expected exactly one head")
    ELSE [status |-> StatusOK, text |-> "",
          head |-> parsed.heads[1].CommitID,
          partial |-> IF HasAny(opt) THEN "true" ELSE "false",
          hash |-> createHash(parsed.heads[1], opt),
          bytes |-> TRUE, bundle |-> data, shows |-> {}, since |-> -1]

\* a response that gives the ref of the head for its commit ID
pullHeadsReply_refAsHead(opt, data, cmdFails, parsed) ==
    IF cmdFails \/ parsed.err # "nil"
    THEN ReplyErr("Failed to get bundle info", IF cmdFails THEN "cmd" ELSE "plain")
    ELSE IF Len(parsed.heads) # 1 THEN Reply(StatusInternalServerError, "Expected exactly one head")
    ELSE [status |-> StatusOK, text |-> "",
          head |-> parsed.heads[1].Ref,
          partial |-> IF HasAny(opt) THEN "true" ELSE "false",
          hash |-> createHash(parsed.heads[1], opt),
          bytes |-> TRUE, bundle |-> data, shows |-> {}, since |-> -1]

\* a response whose partial flag looks at the since filter alone
pullHeadsReply_sincePartial(opt, data, cmdFails, parsed) ==
    IF cmdFails \/ parsed.err # "nil"
    THEN ReplyErr("Failed to get bundle info", IF cmdFails THEN "cmd" ELSE "plain")
    ELSE IF Len(parsed.heads) # 1 THEN Reply(StatusInternalServerError, "Expected exactly one head")
    ELSE [status |-> StatusOK, text |-> "",
          head |-> parsed.heads[1].CommitID,
          partial |-> IF opt.Since # 0 THEN "true" ELSE "false",
          hash |-> createHash(parsed.heads[1], opt),
          bytes |-> TRUE, bundle |-> data, shows |-> {}, since |-> -1]

\* pull.go: the response to the outcome of GetBundleListHeads: the three
\* headers and the bundle bytes for exactly one head, 500 otherwise
pullHeadsReply(opt, data, cmdFails, parsed) ==
    IF cmdFails \/ parsed.err # "nil"
    THEN ReplyErr("Failed to get bundle info", IF cmdFails THEN "cmd" ELSE "plain")
    ELSE IF Len(parsed.heads) # 1 THEN Reply(StatusInternalServerError, "Expected exactly one head")
    ELSE [status |-> StatusOK, text |-> "",
          head |-> parsed.heads[1].CommitID,
          partial |-> IF HasAny(opt) THEN "true" ELSE "false",
          hash |-> createHash(parsed.heads[1], opt),
          bytes |-> TRUE, bundle |-> data, shows |-> {}, since |-> -1]

PullListHeads ==
    /\ req.kind = "pull" /\ req.pc = "listHeads"
    /\ \E cmdFails \in BOOLEAN, out \in {GitListHeads(req.data)} \cup OtherListings :
         LET parsed == ParseBundleListHeadsOutput(out)
         IN  /\ resp' = pullHeadsReply(req.opt, req.data, cmdFails, parsed)
             /\ req' = [req EXCEPT
                          !.errs = ErrorInc("pull", resp'),
                          !.calls = Append(@, Call("listHeads",
                                     IF cmdFails THEN "other"
                                     ELSE IF parsed.err # "nil" THEN "parse"
                                     ELSE ToString(Len(parsed.heads)))),
                          !.faulted = @ \/ cmdFails \/ out # GitListHeads(req.data),
                          !.heads = IF cmdFails THEN <<>> ELSE parsed.heads,
                          !.pc = "done"]
    /\ UNCHANGED <<remote, mirror, prev>>
    /\ UNCHANGED <<probe, inflight, tempDirs>>
    /\ faulty' = (faulty \/ req'.faulted)

\* -------------------------------------------------- GitPushHandler.push
\* GitPushHandler.ServeHTTP with well-formed arguments, up to NewGIT
RecvPush ==
    /\ req.pc = "idle"
    /\ \E token \in Tokens, b \in BundleInputs :
         req' = [Idle EXCEPT !.kind = "push", !.pc = "sync", !.token = token, !.ops = 1,
                             !.args = Query(token),
                             !.bundle = b, !.m0 = mirror, !.r0 = remote]
    /\ resp' = NoResp
    /\ UNCHANGED <<remote, mirror, prev, faulty>>
    /\ UNCHANGED <<probe, inflight, tempDirs>>

\* a push that goes on after a failed sync
pushSyncReply_ignoreErr(rs) ==
    IF rs.err = "nil" /\ ~rs.wt THEN Reply(StatusNotFound, "remote repository does not exist")
    ELSE NoResp

\* part_004: what push answers to the result of SyncRepoToLocalTemp
pushSyncReply(rs) ==
    IF rs.err # "nil" THEN ReplyErr("failed to sync repository", rs.err)
    ELSE IF ~rs.wt THEN Reply(StatusNotFound, "remote repository does not exist")
    ELSE NoResp

PushSync ==
    /\ req.kind = "push" /\ req.pc = "sync"
    /\ \E run \in SyncRuns(mirror, remote, req.token) :
         LET rs == SyncResult(mirror, remote, run)
             reply == pushSyncReply(rs)
         IN  /\ mirror' = rs.mirror
             /\ resp' = reply
             /\ req' = [req EXCEPT
                          !.errs = ErrorInc("push", resp'),
                          !.calls = Append(@, Call("sync", SyncRes(rs))),
                          !.xport = IF run.existsFails THEN "" ELSE run.x,
                          !.faulted = SyncFaulted(mirror, run),
                          !.pc = IF reply = NoResp THEN "apply" ELSE "done"]
    /\ UNCHANGED <<remote, prev>>
    /\ UNCHANGED <<probe, inflight, tempDirs>>
    /\ faulty' = (faulty \/ req'.faulted)

\* "git -C workDir pull <bundle file> <branch>": garbage is no bundle, a
\* missing prerequisite is reported on stderr, anything else fast-forwards
\* (or is already up to date)
GitPullBundle(m, b) ==
    IF ~b.ok THEN [mirror |-> m, err |-> "cmd", stderr |-> {}]
    ELSE IF b.prereq > m.tip THEN [mirror |-> m, err |-> "cmd", stderr |-> {PrereqMarker}]
    ELSE [mirror |-> [m EXCEPT !.tip = Max(m.tip, b.tip)], err |-> "nil", stderr |-> {}]

\* a scratch directory that only the straight path through ApplyBundleToLocal removes
ApplyScratch_noDefer(failAt) ==
    LET made == IF failAt = 1 THEN {} ELSE IF failAt = 2 THEN {"dir"}
                ELSE {"dir", "dir/bundle"}
    IN  [made |-> made, left |-> IF failAt = 0 THEN {} ELSE made]

\* what ApplyBundleToLocal creates under the scratch root and what of it is
\* left when it returns; it stops at step failAt (0: no step fails):
\*   1 getRandomTempDir, 2 os.OpenFile, 3 io.Copy.
\* "defer os.RemoveAll(dir)" is in place once getRandomTempDir succeeded.
ApplyScratch(failAt) ==
    LET made == IF failAt = 1 THEN {} ELSE IF failAt = 2 THEN {"dir"}
                ELSE {"dir", "dir/bundle"}
        deferred == failAt # 1
    IN  [made |-> made, left |-> IF deferred THEN {} ELSE made]

\* GIT.ApplyBundleToLocal; failAt: the scratch directory, the temporary file
\* or the copy of the request body fails before git runs
ApplyBundleToLocal(m, b, failAt) ==
    IF failAt # 0
    THEN [mirror |-> m, err |-> "plain", stderr |-> {}, scratch |-> ApplyScratch(failAt)]
    ELSE [scratch |-> ApplyScratch(0)] @@ GitPullBundle(m, b)

ApplyFailures(m) ==
    {[mirror |-> m, err |-> "cmd", stderr |-> e, scratch |-> ApplyScratch(0)] : e \in StdErrs}

\* a push that knows no Conflict
pushApplyReply_noConflict(res) ==
    IF res.err = "nil" THEN NoResp
    ELSE ReplyErr("failed to apply bundle", res.err)

\* part_004: what push answers to the result of ApplyBundleToLocal
pushApplyReply(res) ==
    IF res.err = "nil" THEN NoResp
    ELSE IF res.err = "cmd" /\ Contains(res.stderr, PrereqMarker)
    THEN Reply(StatusConflict, "failed to apply bundle, some prerequisites are missing")
    ELSE ReplyErr("failed to apply bundle", res.err)

PushApply ==
    /\ req.kind = "push" /\ req.pc = "apply"
    /\ \E res \in {ApplyBundleToLocal(mirror, req.bundle, failAt) : failAt \in 0..3}
                    \cup ApplyFailures(mirror) :
         LET reply == pushApplyReply(res)
         IN  /\ mirror' = res.mirror
             /\ resp' = reply
             /\ req' = [req EXCEPT
                          !.errs = ErrorInc("push", resp'),
                          !.calls = Append(@, Call("apply",
                                     IF res.err = "nil" THEN "ok"
                                     ELSE IF Contains(res.stderr, PrereqMarker) THEN "prereq"
                                     ELSE "other")),
                          !.faulted = @ \/ res # ApplyBundleToLocal(mirror, req.bundle, 0),
                          !.scratch = res.scratch,
                          !.pc = IF reply = NoResp THEN "push" ELSE "done"]
    /\ UNCHANGED <<remote, prev>>
    /\ UNCHANGED <<probe, inflight, tempDirs>>
    /\ faulty' = (faulty \/ req'.faulted)

\* What the remote answers to a push of refs/heads/* when it answers at all.
PushAnswer(m, r) ==
    IF ~r.exists THEN "notfound"
    ELSE IF BranchTip(m) <= r.tip THEN "uptodate"
    ELSE "ok"

\* The outcomes of go-git's Push for a token: a write needs a valid credential.
PushOutcomes(m, r, token) ==
    IF token = "bad"
    THEN {"authn", "authz", "other"} \cup (IF r.exists THEN {} ELSE {"notfound"})
    ELSE {PushAnswer(m, r), "other"}

\* a push to the remote that takes "already up to date" for a failure
PushLocalToRemote_strict(m, r, x, openFails) ==
    IF openFails THEN [remote |-> r, err |-> "other"]
    ELSE CASE x = "ok" -> [remote |-> [r EXCEPT !.tip = BranchTip(m)], err |-> "nil"]
           [] x \in {"authn", "authz"} -> [remote |-> r, err |-> "auth"]
           [] OTHER    -> [remote |-> r, err |-> "other"]

\* GIT.PushLocalToRemote for the push outcome x; openFails: PlainOpen fails
PushLocalToRemote(m, r, x, openFails) ==
    IF openFails THEN [remote |-> r, err |-> "other"]
    ELSE CASE x = "ok"       -> [remote |-> [r EXCEPT !.tip = BranchTip(m)], err |-> "nil"]
           [] x = "uptodate" -> [remote |-> r, err |-> "nil"]
           [] x \in {"authn", "authz"} -> [remote |-> r, err |-> "auth"]
           [] OTHER          -> [remote |-> r, err |-> "other"]

\* a push that writes nothing when PushLocalToRemote failed
pushRemoteReply_silent(err) ==
    IF err # "nil" THEN NoResp
    ELSE Reply(StatusOK, "Bundle successfully pushed")

\* part_004: what push answers to the result of PushLocalToRemote
pushRemoteReply(err) ==
    IF err # "nil" THEN ReplyErr("failed to apply bundle", err)
    ELSE Reply(StatusOK, "Bundle successfully pushed")

PushRemote ==
    /\ req.kind = "push" /\ req.pc = "push"
    /\ \E x \in PushOutcomes(mirror, remote, req.token), openFails \in BOOLEAN :
         LET res == PushLocalToRemote(mirror, remote, x, openFails)
         IN  /\ remote' = res.remote
             /\ resp' = pushRemoteReply(res.err)
             /\ req' = [req EXCEPT
                          !.errs = ErrorInc("push", resp'),
                          !.calls = Append(@, Call("pushToRemote",
                                     IF res.err = "nil" THEN "ok" ELSE res.err)),
                          !.faulted = @ \/ openFails \/ x = "other",
                          !.pc = "done"]
    /\ UNCHANGED <<mirror, prev>>
    /\ UNCHANGED <<probe, inflight, tempDirs>>
    /\ faulty' = (faulty \/ req'.faulted)

\* ------------------------------------------------------- between requests
\* the handler returns; a success is remembered for the request that follows,
\* and so is the answer to a pull that presented a valid token, as long as no
\* operation has failed for a reason of its own
\* ServeHTTP and the head of push and pull: 400 with the error of extractArgs,
\* 500 "internal error" when NewGIT refuses the RemoteRepo, otherwise go on
argsReply(q) ==
    LET repo == extractArgs(q)
    IN  IF repo.err # "nil" THEN Reply(StatusBadRequest, repo.err)
        ELSE IF NewGIT(HandlerTempDir, repo) # "nil"
        THEN Reply(StatusInternalServerError, "internal error")
        ELSE NoResp

\* a request that is answered before any operation on the mirror
RecvLacking ==
    /\ req.pc = "idle"
    /\ \E kind \in {"push", "pull"}, q \in Queries :
         /\ argsReply(q) # NoResp
         /\ req' = [Idle EXCEPT !.kind = kind, !.pc = "done",
                                !.token = extractArgs(q).Token, !.args = q,
                                !.ops = IF extractArgs(q).err = "nil" THEN 1 ELSE 0,
                                !.errs = IF extractArgs(q).err = "nil"
                                         THEN ErrorInc(kind, argsReply(q)) ELSE 0,
                                !.m0 = mirror, !.r0 = remote]
         /\ resp' = argsReply(q)
    /\ UNCHANGED <<remote, mirror, prev, faulty>>
    /\ UNCHANGED <<probe, inflight, tempDirs>>

Remembered ==
    /\ req.token = "good" /\ ~faulty
    /\ (req.kind = "pull" \/ resp.status \in {StatusOK, StatusConflict})

Finish ==
    /\ req.pc = "done"
    /\ prev' = [(IF resp.status = StatusOK /\ req.kind = "push"
                 THEN [NoPrev EXCEPT !.kind = "push", !.bundle = req.bundle,
                                     !.empty = (req.r0.exists /\ req.r0.tip = 0)]
                 ELSE IF resp.status = StatusOK
                 THEN [NoPrev EXCEPT !.kind = "pull", !.opt = req.opt, !.head = resp.head,
                                     !.hash = resp.hash, !.full = (resp.bundle.prereq = 0)]
                 ELSE IF Remembered
                 THEN [NoPrev EXCEPT !.opt = req.opt]
                 ELSE NoPrev)
                EXCEPT !.was = IF Remembered THEN req.kind ELSE "none",
                       !.status = IF Remembered THEN resp.status ELSE 0]
    /\ req' = Idle
    /\ resp' = NoResp
    /\ UNCHANGED <<remote, mirror, faulty>>
    /\ UNCHANGED <<probe, inflight, tempDirs>>

Next ==
    \/ RemoteCreate \/ RemoteDelete \/ RemoteCommit
    \/ RecvPull \/ PullSync \/ PullHasBranch \/ PullHasCommits
    \/ PullCreateBundle \/ PullListHeads
    \/ RecvPush \/ PushSync \/ PushApply \/ PushRemote
    \/ RecvLacking
    \/ Finish

Spec == Init /\ [][Next]_vars

\* push and pull are straight-line code: when the operation a request waits
\* for returns, the handler goes on to its next statement
SpecServe ==
    Spec /\ WF_vars(\/ PullSync \/ PullHasBranch \/ PullHasCommits
                    \/ PullCreateBundle \/ PullListHeads
                    \/ PushSync \/ PushApply \/ PushRemote)

\* ------------------------------------------- a caller that gives up
\* the steps that run a git process (exec.Command(...).Run())
ExternalSteps == {"apply", "createBundle", "listHeads"}

\* The caller cancels or times out while a git process of its request runs:
\* the request's context is done. cancelAt is the number of the running step.
\* The handlers never read r.Context() and start git with exec.Command, not
\* exec.CommandContext, so nothing else changes.
Cancel ==
    /\ req.pc \in ExternalSteps /\ req.cancelAt = 0
    /\ req' = [req EXCEPT !.cancelAt = Len(req.calls) + 1]
    /\ UNCHANGED <<remote, mirror, resp, prev, faulty, probe, inflight, tempDirs>>

NextCancel ==
    \/ Next
    \/ Cancel

SpecCancel == Init /\ [][NextCancel]_vars

\* ------------------------------------------------- functions on their own
\* BundleInfo, as ParseBundleVerifyOutput starts it
NoBundleInfo == [IsComplete |-> FALSE, ContainsRef |-> "", RequiresRef |-> "",
                 HashAlgorithm |-> "", IsOkay |-> FALSE]

\* the stdout of "git bundle verify -", line by line; a line is given by what
\* the parser's prefix and suffix tests make of it, and by the text it holds
\* (for a hash line: the text after the prefix)
VerifyLine(kind, text) == [kind |-> kind, text |-> text]

\* scanner.Text() for a line
LineText(line) ==
    CASE line.kind = "contains" -> "The bundle contains this ref:"
      [] line.kind = "requires" -> "The bundle requires this ref:"
      [] line.kind = "complete" -> "The bundle records a complete history."
      [] line.kind = "okay"     -> "- is okay"
      [] line.kind = "hash"     -> "The bundle uses this hash algorithm: " \o line.text
      [] OTHER                  -> line.text

\* the sections an output of "git bundle verify" is made of
VerifyShapes ==
    [contains : BOOLEAN, requires : BOOLEAN, complete : BOOLEAN,
     hash : {"absent", "", "sha1"}, okay : BOOLEAN]

VerifyOutput(c) ==
    (IF c.contains THEN <<VerifyLine("contains", ""), VerifyLine("ref", "2 refs/heads/branch")>>
     ELSE <<>>)
    \o (IF c.requires THEN <<VerifyLine("requires", ""), VerifyLine("ref", "1 ")>> ELSE <<>>)
    \o (IF c.complete THEN <<VerifyLine("complete", "")>> ELSE <<>>)
    \o (IF c.hash # "absent" THEN <<VerifyLine("hash", c.hash)>> ELSE <<>>)
    \o (IF c.okay THEN <<VerifyLine("okay", "")>> ELSE <<>>)

\* ParseBundleVerifyOutput: the scanner loop; a "contains" or "requires" line
\* takes the line after it (the empty text at the end of the input) as the ref
RECURSIVE ParseVerifyLines(_, _)
ParseVerifyLines(lines, bundle) ==
    IF lines = <<>> THEN bundle
    ELSE LET line == Head(lines)
             rest == Tail(lines)
             b1 == IF line.kind = "complete" THEN [bundle EXCEPT !.IsComplete = TRUE]
                   ELSE bundle
             b2 == IF line.kind = "hash" THEN [b1 EXCEPT !.HashAlgorithm = line.text]
                   ELSE b1
             next == IF rest = <<>> THEN "" ELSE LineText(Head(rest))
             after == IF rest = <<>> THEN <<>> ELSE Tail(rest)
         IN  CASE line.kind = "contains"
                    -> ParseVerifyLines(after, [b2 EXCEPT !.ContainsRef = next])
               [] line.kind = "requires"
                    -> ParseVerifyLines(after, [b2 EXCEPT !.RequiresRef = next])
               [] line.kind = "complete"
                    -> ParseVerifyLines(rest, [b2 EXCEPT !.IsComplete = TRUE])
               [] line.kind = "okay"
                    -> ParseVerifyLines(rest, [b2 EXCEPT !.IsOkay = TRUE])
               [] OTHER -> ParseVerifyLines(rest, b2)

ParseBundleVerifyOutput(output) == ParseVerifyLines(output, NoBundleInfo)

\* BundleInfo.Validate: "nil", or the error it returns
Validate(b) ==
    IF ~b.IsOkay THEN "bundle is not okay"
    ELSE IF b.ContainsRef = "" THEN "bundle does not contain ref"
    ELSE IF ~b.IsComplete /\ b.RequiresRef # ""
    THEN "bundle does not specify required ref, but is partial"
    ELSE IF b.HashAlgorithm = "" THEN "bundle does not specify hash algorithm"
    ELSE "nil"

\* GIT.GetBundleInfo; cmdFails: "git bundle verify" exits with an error
GetBundleInfo(cmdFails, output) ==
    IF cmdFails THEN [info |-> NoBundleInfo, err |-> "cmd"]
    ELSE LET info == ParseBundleVerifyOutput(output)
         IN  [info |-> info, err |-> Validate(info)]

\* ---- the workdir resolver
\* the bytes of the letters a and b; a URL or a branch name is a non-empty
\* sequence of bytes (NewGIT refuses the empty ones)
Chars == {97, 98}

Names == UNION {[1..n -> Chars] : n \in 1..MaxName}

\* base64.URLEncoding.EncodeToString: three bytes give four 6-bit digits, a
\* shorter last group is filled with the padding character; a digit stands for
\* its character in the URL-safe alphabet
RECURSIVE EncodeToString(_)
EncodeToString(src) ==
    IF Len(src) = 0 THEN <<>>
    ELSE IF Len(src) >= 3
    THEN LET v == src[1] * 65536 + src[2] * 256 + src[3]
         IN  <<v \div 262144, (v \div 4096) % 64, (v \div 64) % 64, v % 64>>
               \o EncodeToString(SubSeq(src, 4, Len(src)))
    ELSE IF Len(src) = 2
    THEN LET v == src[1] * 65536 + src[2] * 256
         IN  <<v \div 262144, (v \div 4096) % 64, (v \div 64) % 64, StdPadding>>
    ELSE LET v == src[1] * 65536
         IN  <<v \div 262144, (v \div 4096) % 64, StdPadding, StdPadding>>

\* the standard alphabet, whose last two characters are '+' and '/'
encodeURL_std(d) ==
    IF d < 26 THEN 65 + d
    ELSE IF d < 52 THEN 97 + (d - 26)
    ELSE IF d < 62 THEN 48 + (d - 52)
    ELSE IF d = 62 THEN 43
    ELSE IF d = 63 THEN 47
    ELSE 61

\* the character of a digit in base64.URLEncoding: A-Z, a-z, 0-9, '-', '_',
\* and '=' for the padding
encodeURL(d) ==
    IF d < 26 THEN 65 + d
    ELSE IF d < 52 THEN 97 + (d - 26)
    ELSE IF d < 62 THEN 48 + (d - 52)
    ELSE IF d = 62 THEN 45
    ELSE IF d = 63 THEN 95
    ELSE 61

\* the encoded text, character by character
EncodedText(src) ==
    LET e == EncodeToString(src) IN [i \in 1..Len(e) |-> encodeURL(e[i])]

\* a path is the sequence of its elements, an element a sequence of characters
\* the elements of a text between its separators '/'
RECURSIVE SplitPath(_, _)
SplitPath(text, cur) ==
    IF Len(text) = 0 THEN <<cur>>
    ELSE IF text[1] = 47 THEN <<cur>> \o SplitPath(Tail(text), <<>>)
    ELSE SplitPath(Tail(text), Append(cur, text[1]))

\* filepath.Clean on elements: empty elements and "." are dropped, ".." takes
\* the element before it away (and stays at the start of a relative path)
RECURSIVE CleanPath(_, _)
CleanPath(elems, acc) ==
    IF Len(elems) = 0 THEN acc
    ELSE LET e == elems[1]
         IN  IF e = <<>> \/ e = <<46>> THEN CleanPath(Tail(elems), acc)
             ELSE IF e = <<46, 46>>
             THEN IF Len(acc) > 0 /\ acc[Len(acc)] # <<46, 46>>
                  THEN CleanPath(Tail(elems), SubSeq(acc, 1, Len(acc) - 1))
                  ELSE CleanPath(Tail(elems), Append(acc, e))
             ELSE CleanPath(Tail(elems), Append(acc, e))

\* filepath.Join(dir, name)
JoinPath(dir, name) == CleanPath(dir \o SplitPath(name, <<>>), <<>>)

\* getWorkDir: filepath.Join(tempDir, <encoding of remoteURL+branch>)
getWorkDir(tempDir, remoteURL, branch) ==
    JoinPath(tempDir, EncodedText(remoteURL \o branch))

\* the scratch root "tmp"
TempDir == << <<116, 109, 112>> >>

\* GIT.getRandomTempDir: filepath.Join(tempDir, generateRandomString()), the
\* random name drawn from lower-case letters
getRandomTempDir(tempDir, random) == JoinPath(tempDir, random)

\* ApplyBundleToLocal: filepath.Join(dir, "bundle")
BundleFile(dir) == JoinPath(dir, <<98, 117, 110, 100, 108, 101>>)

Keys == [url : Names, branch : Names]

WorkDirInputs ==
    {[fn |-> "getWorkDir", arg |-> [a |-> a, b |-> b], out |-> <<>>, done |-> FALSE] :
        a \in Keys, b \in Keys}

VerifyInputs ==
    {[fn |-> "GetBundleInfo", arg |-> [cmdFails |-> f, output |-> VerifyOutput(c)],
      out |-> <<>>, done |-> FALSE] : f \in BOOLEAN, c \in VerifyShapes}

\* characters a URL or a branch can hold that matter to a path: '.', '/', '?'
PathChars == {46, 47, 63}

PathNames == UNION {[1..n -> PathChars] : n \in 1..MaxName}

\* generateRandomString: RandomLen letters drawn from a-z; here the letters
\* are drawn from Chars, and those after the first MaxName are 'a'
RandomLen == 10

RandomStrings ==
    {[i \in 1..RandomLen |-> IF i <= MaxName THEN h[i] ELSE 97] : h \in [1..MaxName -> Chars]}

PathInputs ==
    {[fn |-> "paths", arg |-> [url |-> u, branch |-> b, random |-> r],
      out |-> <<>>, done |-> FALSE] :
        u \in PathNames, b \in PathNames,
        r \in RandomStrings}

\* strings.Split(text, sep): the parts of a text between its separators
RECURSIVE SplitAt(_, _, _)
SplitAt(text, sep, cur) ==
    IF Len(text) = 0 THEN <<cur>>
    ELSE IF text[1] = sep THEN <<cur>> \o SplitAt(Tail(text), sep, <<>>)
    ELSE SplitAt(Tail(text), sep, Append(cur, text[1]))

\* bufio.Scanner with ScanLines: the lines of a text without their line ends
\* (a carriage return before the line feed goes too); no line after the last
\* line feed
ScanLines(text) ==
    LET parts == SplitAt(text, 10, <<>>)
        kept == IF parts[Len(parts)] = <<>> THEN SubSeq(parts, 1, Len(parts) - 1) ELSE parts
    IN  [i \in 1..Len(kept) |->
            IF Len(kept[i]) > 0 /\ kept[i][Len(kept[i])] = 13
            THEN SubSeq(kept[i], 1, Len(kept[i]) - 1) ELSE kept[i]]

\* ParseBundleListHeadsOutput on a text: every line split at the single space
ParseListHeadsText(text) ==
    LET lines == ScanLines(text)
    IN  ParseBundleListHeadsOutput([i \in 1..Len(lines) |-> SplitAt(lines[i], 32, <<>>)])

\* the characters of a list-heads output: tab, line feed, space, a letter
TextChars == {9, 10, 32, 97}

Texts == UNION {[1..n -> TextChars] : n \in 0..MaxText}

ListHeadsInputs ==
    {[fn |-> "listHeads", arg |-> t, out |-> <<>>, done |-> FALSE] : t \in Texts}

\* the lines a report can hold, and the reports of up to MaxLines lines in
\* any order
ReportLines ==
    {VerifyLine("contains", ""), VerifyLine("requires", ""), VerifyLine("complete", ""),
     VerifyLine("okay", ""), VerifyLine("hash", "sha1"),
     VerifyLine("ref", "2 refs/heads/branch")}

Reports == UNION {[1..n -> ReportLines] : n \in 0..MaxLines}

ReportInputs ==
    {[fn |-> "ParseBundleVerifyOutput", arg |-> r, out |-> <<>>, done |-> FALSE] :
        r \in Reports}

\* ---- a git process and the error made of its failure
\* what the process of an operation can print on stdout
Stdouts(op) ==
    CASE op = "CreateBundleFromLocal" -> {<<>>, <<1>>, <<1, 2>>}
      [] op = "GetBundleInfo"         -> {VerifyOutput(c) : c \in VerifyShapes}
      [] op = "GetBundleListHeads"    -> {GitListHeads(b) : b \in RealBundles} \cup OtherListings
      [] OTHER                        -> {<<>>}

\* what cmd.Run() leaves behind: its error ("nil"; "exit": the process ended
\* with a status other than 0; "start": the process was never started, and
\* cmd.ProcessState is nil), the exit status, and the two buffers
Runs(op) ==
    [err : {"nil"}, status : {0}, stderr : {{}}, stdout : Stdouts(op)]
    \cup [err : {"exit"}, status : {1, 128}, stderr : StdErrs, stdout : Stdouts(op)]
    \cup [err : {"start"}, status : {0}, stderr : {{}}, stdout : {<<>>}]

\* (*os.ProcessState).ExitCode(): -1 when there is no process state
ExitCode(run) == IF run.err = "start" THEN 0 - 1 ELSE run.status

NilError == [type |-> "nil", Err |-> "nil", Message |-> "", ExitCode |-> 0, StdErr |-> {}]

\* errors.New(text)
PlainError(text) ==
    [type |-> "error", Err |-> text, Message |-> "", ExitCode |-> 0, StdErr |-> {}]

\* a CommandError that drops what the process wrote to stderr
CommandError_noStdErr(msg, err, code, stderr) ==
    [type |-> "CommandError", Err |-> err, Message |-> msg, ExitCode |-> code, StdErr |-> {}]

\* &CommandError{Message: ..., Err: err, StdErr: stderr.String(), ExitCode: ...}
CommandError(msg, err, code, stderr) ==
    [type |-> "CommandError", Err |-> err, Message |-> msg, ExitCode |-> code,
     StdErr |-> stderr]

\* (*CommandError).Unwrap
Unwrap(e) == IF e.type = "CommandError" THEN e.Err ELSE "nil"

\* the Message each operation gives its CommandError
FailureMessage(op) ==
    CASE op = "ApplyBundleToLocal"    -> "failed to apply bundle"
      [] op = "CreateBundleFromLocal" -> "failed to bundle repository"
      [] OTHER                        -> "failed to verify bundle"

\* what an operation returns next to a CommandError: nil bytes, BundleInfo{},
\* nil heads (ApplyBundleToLocal returns the error alone)
ZeroValue(op) == IF op = "GetBundleInfo" THEN NoBundleInfo ELSE <<>>

\* the value and the error an operation returns after cmd.Run()
RunGit(op, run) ==
    IF run.err # "nil"
    THEN [value |-> ZeroValue(op),
          error |-> CommandError(FailureMessage(op), run.err, ExitCode(run), run.stderr)]
    ELSE CASE op = "CreateBundleFromLocal" -> [value |-> run.stdout, error |-> NilError]
           [] op = "GetBundleInfo" ->
                LET r == GetBundleInfo(FALSE, run.stdout)
                IN  [value |-> r.info,
                     error |-> IF r.err = "nil" THEN NilError ELSE PlainError(r.err)]
           [] op = "GetBundleListHeads" ->
                LET r == ParseBundleListHeadsOutput(run.stdout)
                IN  [value |-> r.heads,
                     error |-> IF r.err = "nil" THEN NilError ELSE PlainError(r.err)]
           [] OTHER -> [value |-> <<>>, error |-> NilError]

RunInputs ==
    UNION {{[fn |-> "run", arg |-> [op |-> op, run |-> run], out |-> <<>>, done |-> FALSE] :
               run \in Runs(op)} :
           op \in {"ApplyBundleToLocal", "CreateBundleFromLocal",
                   "GetBundleInfo", "GetBundleListHeads"}}

ProbeInputs ==
    VerifyInputs \cup WorkDirInputs \cup PathInputs \cup ListHeadsInputs \cup ReportInputs
    \cup RunInputs

InitFn ==
    /\ remote = [exists |-> FALSE, tip |-> 0]
    /\ mirror = NoMirror
    /\ req = Idle
    /\ resp = NoResp
    /\ prev = NoPrev
    /\ faulty = FALSE
    /\ probe \in ProbeInputs
    /\ inflight = NoFlights
    /\ tempDirs = {}

VerifyBundle ==
    /\ probe.fn = "GetBundleInfo" /\ ~probe.done
    /\ probe' = [probe EXCEPT !.out = GetBundleInfo(probe.arg.cmdFails, probe.arg.output),
                              !.done = TRUE]
    /\ UNCHANGED <<remote, mirror, req, resp, prev, faulty, inflight, tempDirs>>

\* NewGIT resolves the workDir of two keys under one scratch root
ResolveWorkDirs ==
    /\ probe.fn = "getWorkDir" /\ ~probe.done
    /\ probe' = [probe EXCEPT
                   !.out = <<getWorkDir(TempDir, probe.arg.a.url, probe.arg.a.branch),
                             getWorkDir(TempDir, probe.arg.b.url, probe.arg.b.branch)>>,
                   !.done = TRUE]
    /\ UNCHANGED <<remote, mirror, req, resp, prev, faulty, inflight, tempDirs>>

\* NewGIT and ApplyBundleToLocal name the mirror directory, the scratch
\* directory and the bundle file of one request
ResolvePaths ==
    /\ probe.fn = "paths" /\ ~probe.done
    /\ LET dir == getRandomTempDir(TempDir, probe.arg.random)
       IN  probe' = [probe EXCEPT
                       !.out = [workDir |-> getWorkDir(TempDir, probe.arg.url, probe.arg.branch),
                                dir |-> dir, file |-> BundleFile(dir)],
                       !.done = TRUE]
    /\ UNCHANGED <<remote, mirror, req, resp, prev, faulty, inflight, tempDirs>>

\* GetBundleListHeads parses the standard output of "git bundle list-heads"
ParseListHeads ==
    /\ probe.fn = "listHeads" /\ ~probe.done
    /\ probe' = [probe EXCEPT !.out = ParseListHeadsText(probe.arg), !.done = TRUE]
    /\ UNCHANGED <<remote, mirror, req, resp, prev, faulty, inflight, tempDirs>>

\* GetBundleInfo parses the report of "git bundle verify"
ParseReport ==
    /\ probe.fn = "ParseBundleVerifyOutput" /\ ~probe.done
    /\ probe' = [probe EXCEPT !.out = ParseBundleVerifyOutput(probe.arg), !.done = TRUE]
    /\ UNCHANGED <<remote, mirror, req, resp, prev, faulty, inflight, tempDirs>>

\* an operation runs its git process and returns
RunCommand ==
    /\ probe.fn = "run" /\ ~probe.done
    /\ probe' = [probe EXCEPT !.out = RunGit(probe.arg.op, probe.arg.run), !.done = TRUE]
    /\ UNCHANGED <<remote, mirror, req, resp, prev, faulty, inflight, tempDirs>>

NextFn ==
    \/ RunCommand
    \/ ParseReport
    \/ VerifyBundle
    \/ ResolveWorkDirs
    \/ ResolvePaths
    \/ ParseListHeads

SpecFn == InitFn /\ [][NextFn]_vars

\* ------------------------------------------- two requests for one key
\* net/http serves every request on a goroutine of its own; the handlers hold
\* no lock, so requests for one key run side by side.  Here only the place of
\* each request in its handler is followed, step by step: the calls into GIT
\* in the order push and pull make them (SyncRepoToLocalTemp being the
\* exists-check followed by the clone or pull).
PushSteps == <<"exists", "fetch", "apply", "pushToRemote">>

PullSteps == <<"exists", "fetch", "hasLocalBranch", "hasLocalCommits",
               "createBundle", "listHeads">>

StepsOf(kind) == IF kind = "push" THEN PushSteps ELSE PullSteps

IdleFlight == [kind |-> "none", at |-> 0, pc |-> "idle"]

InitConc ==
    /\ remote = [exists |-> TRUE, tip |-> 0]
    /\ mirror = NoMirror
    /\ req = Idle
    /\ resp = NoResp
    /\ prev = NoPrev
    /\ faulty = FALSE
    /\ probe = NoProbe
    /\ inflight = [i \in 1..MaxInflight |-> IdleFlight]
    /\ tempDirs = {}

\* ServeHTTP is entered for a request of the key, and reaches push or pull
ConcArrive ==
    /\ \E i \in DOMAIN inflight, kind \in {"push", "pull"} :
         /\ inflight[i].pc = "idle"
         /\ inflight' = [inflight EXCEPT ![i] = [kind |-> kind, at |-> 1,
                                                  pc |-> StepsOf(kind)[1]]]
    /\ UNCHANGED <<remote, mirror, req, resp, prev, faulty, probe, tempDirs>>

\* the step the request is in succeeds: on to the next one, or to the response
ConcAdvance ==
    /\ \E i \in DOMAIN inflight :
         LET f == inflight[i]
             steps == StepsOf(f.kind)
         IN  /\ f.at >= 1
             /\ inflight' = [inflight EXCEPT ![i] =
                               IF f.at < Len(steps)
                               THEN [f EXCEPT !.at = f.at + 1, !.pc = steps[f.at + 1]]
                               ELSE [f EXCEPT !.at = 0, !.pc = "done"]]
    /\ UNCHANGED <<remote, mirror, req, resp, prev, faulty, probe, tempDirs>>

\* the step the request is in ends it: an error or a NoContent answer
ConcEnd ==
    /\ \E i \in DOMAIN inflight :
         /\ inflight[i].at >= 1
         /\ inflight' = [inflight EXCEPT ![i] = [@ EXCEPT !.at = 0, !.pc = "done"]]
    /\ UNCHANGED <<remote, mirror, req, resp, prev, faulty, probe, tempDirs>>

\* ServeHTTP returns
ConcReturn ==
    /\ \E i \in DOMAIN inflight :
         /\ inflight[i].pc = "done"
         /\ inflight' = [inflight EXCEPT ![i] = IdleFlight]
    /\ UNCHANGED <<remote, mirror, req, resp, prev, faulty, probe, tempDirs>>

NextConc ==
    \/ ConcArrive
    \/ ConcAdvance
    \/ ConcEnd
    \/ ConcReturn

SpecConc == InitConc /\ [][NextConc]_vars

\* --------------------------- ApplyBundleToLocal calls running side by side
\* the names of the mirror directories of the keys in the scratch root
MirrorDirs == {getWorkDir(TempDir, k.url, k.branch)[Len(TempDir) + 1] : k \in Keys}

\* a call of ApplyBundleToLocal: where it is, for which key, and the name of
\* its scratch directory (at "failed": the name os.Mkdir refused)
IdleApply == [pc |-> "idle", key |-> <<>>, dir |-> <<>>]

\* the places at which a call has a scratch directory of its own
Holding == {"copy", "git", "return"}

InitApply ==
    /\ remote = [exists |-> TRUE, tip |-> 0]
    /\ mirror = NoMirror
    /\ req = Idle
    /\ resp = NoResp
    /\ prev = NoPrev
    /\ faulty = FALSE
    /\ probe = NoProbe
    /\ inflight = [i \in 1..MaxInflight |-> IdleApply]
    /\ tempDirs = MirrorDirs

\* what a call removes when os.Mkdir failed: nothing, the call returns before
\* "defer os.RemoveAll(dir)" is reached
RemovedOnMkdirError_deferred(name) == {name}

RemovedOnMkdirError(name) == {}

\* getRandomTempDir: os.Mkdir(<root>/<random name>); it fails when the name
\* exists, and ApplyBundleToLocal returns the error
ApplyMkdir ==
    /\ \E i \in DOMAIN inflight, name \in RandomStrings,
          k \in {key \in Keys : Len(key.url) = 1 /\ key.branch = <<97>>} :
         /\ inflight[i].pc = "idle"
         /\ IF name \in tempDirs
            THEN /\ tempDirs' = tempDirs \ RemovedOnMkdirError(name)
                 /\ inflight' = [inflight EXCEPT
                                   ![i] = [pc |-> "failed", key |-> k, dir |-> name]]
            ELSE /\ tempDirs' = tempDirs \cup {name}
                 /\ inflight' = [inflight EXCEPT
                                   ![i] = [pc |-> "copy", key |-> k, dir |-> name]]
    /\ UNCHANGED <<remote, mirror, req, resp, prev, faulty, probe>>

\* os.OpenFile and io.Copy write <dir>/bundle; an error goes to the return
ApplyCopy ==
    /\ \E i \in DOMAIN inflight, ok \in BOOLEAN :
         /\ inflight[i].pc = "copy"
         /\ inflight' = [inflight EXCEPT ![i].pc = IF ok THEN "git" ELSE "return"]
    /\ UNCHANGED <<remote, mirror, req, resp, prev, faulty, probe, tempDirs>>

\* "git -C <workDir> pull <dir>/bundle <branch>" has run
ApplyGit ==
    /\ \E i \in DOMAIN inflight :
         /\ inflight[i].pc = "git"
         /\ inflight' = [inflight EXCEPT ![i].pc = "return"]
    /\ UNCHANGED <<remote, mirror, req, resp, prev, faulty, probe, tempDirs>>

\* the call returns: the deferred os.RemoveAll(dir) of a call that had made
\* its directory
ApplyReturn ==
    /\ \E i \in DOMAIN inflight :
         /\ inflight[i].pc \in {"return", "failed"}
         /\ tempDirs' = IF inflight[i].pc = "return"
                        THEN tempDirs \ {inflight[i].dir} ELSE tempDirs
         /\ inflight' = [inflight EXCEPT ![i] = IdleApply]
    /\ UNCHANGED <<remote, mirror, req, resp, prev, faulty, probe>>

NextApply ==
    \/ ApplyMkdir
    \/ ApplyCopy
    \/ ApplyGit
    \/ ApplyReturn

SpecApply == InitApply /\ [][NextApply]_vars

\* =================================================================== claims
Done(kind) == req.kind = kind /\ req.pc = "done"

\* the operations the request has invoked so far, in order
Ops == [i \in 1..Len(req.calls) |-> req.calls[i].op]

Called(op) == \E i \in 1..Len(req.calls) : req.calls[i].op = op

LastCall ==
    IF req.calls = <<>> THEN Call("none", "") ELSE req.calls[Len(req.calls)]

\* C1: a push whose syncToLocal failed with auth-failed (the remote rejected the
\* credential) is answered Unauthorized (401), not InternalError.
C1_PushAuthFailedIsUnauthorized ==
    (Done("push") /\ Len(req.calls) = 1 /\ req.calls[1] = Call("sync", "auth"))
        => resp.status = StatusUnauthorized

\* C2: a push or pull whose target does not exist on the remote is answered
\* NotFound (404), and applies, creates and pushes no bundle (the token being
\* valid, and no operation so far having failed for a reason of its own).
C2_AbsentRemoteIsNotFound ==
    (req.pc = "done" /\ ~req.r0.exists /\ req.token = "good" /\ ~faulty)
        => /\ resp.status = StatusNotFound
           /\ ~Called("apply") /\ ~Called("createBundle") /\ ~Called("pushToRemote")

\* C3: a push of a bundle whose prerequisite commit is missing from the mirror
\* (whatever the mirror holds, an orphan-initialised one included) is answered
\* Conflict (409) without pushToRemote being invoked and with the remote left
\* as it was; every other failure of applyBundle is answered InternalError.
C3_MissingPrereqIsConflict ==
    (Done("push") /\ Called("apply")) =>
        /\ (req.bundle.ok /\ req.bundle.prereq > mirror.tip /\ ~req.faulted)
              => LastCall = Call("apply", "prereq")
        /\ LastCall = Call("apply", "prereq")
              => (resp.status = StatusConflict /\ ~Called("pushToRemote") /\ remote = req.r0)
        /\ LastCall = Call("apply", "other") => resp.status = StatusInternalServerError

C3_Witness ==
    /\ Done("push") /\ resp.status = StatusConflict /\ ~req.faulted
    /\ mirror = [stage |-> 4, tip |-> 0] /\ req.bundle.prereq > 0

\* C4: after a push of bundle B succeeded, an immediately following push of B,
\* or of a bundle whose commits and prerequisite the mirror already holds,
\* succeeds too and leaves the tips of the mirror and of the remote unchanged
\* (the token being valid and no operation failing for a reason of its own).
C4_PushIdempotent ==
    (prev.kind = "push" /\ Done("push") /\ req.token = "good" /\ ~req.faulted
        /\ (req.bundle = prev.bundle
              \/ (req.bundle.ok /\ req.bundle.tip <= req.m0.tip)))
        => /\ resp.status = StatusOK
           /\ Ops = <<"sync", "apply", "pushToRemote">>
           /\ mirror = req.m0
           /\ remote = req.r0

C4_Witness ==
    /\ prev.kind = "push" /\ Done("push") /\ req.token = "good" /\ ~req.faulted
    /\ req.bundle = prev.bundle /\ resp.status = StatusOK
    /\ req.m0.stage = 4 /\ remote.tip = req.bundle.tip

\* C5: a pull from a remote that exists and has no commit is answered
\* NoContent("no commits") without createBundle being invoked (the token being
\* valid, and no operation so far having failed for a reason of its own).
C5_EmptyRemoteIsNoCommits ==
    (Done("pull") /\ req.r0.exists /\ req.r0.tip = 0 /\ req.token = "good" /\ ~faulty)
        => /\ resp.status = StatusNoContent /\ resp.text = "no commits"
           /\ ~Called("createBundle")

\* a filter was requested: a since or an after value other than the zero value
Filtered(opt) == opt.Since # 0 \/ opt.After # 0

\* two successful pulls in a row showing the same head commit
SameHeadPulls ==
    /\ prev.kind = "pull" /\ Done("pull") /\ resp.status = StatusOK
    /\ resp.head = prev.head

EmptyWindow ==
    /\ Filtered(req.opt)
    /\ \A c \in 1..BranchTip(mirror) :
          CommitTime(c) < (IF req.opt.Since # 0 THEN req.now - req.opt.Since
                           ELSE req.opt.After)

\* C7 (as stated): a createBundle failure showing the empty-bundle refusal is
\* answered NoContent (204) whatever the filter, absent included; a window
\* holding no commit of the branch gives NoContent; every other createBundle
\* failure is answered InternalError.
C7_RefusalIsNoContent ==
    (Done("pull") /\ LastCall.op = "createBundle") =>
        /\ LastCall.res = "refuse" => resp.status = StatusNoContent
        /\ (EmptyWindow /\ ~req.faulted) => resp.status = StatusNoContent
        /\ LastCall.res = "other" => resp.status = StatusInternalServerError

\* C7 (amended): a createBundle failure showing the empty-bundle refusal is
\* answered NoContent (204) when a since or after filter was requested; a
\* window holding no commit of the branch gives NoContent; every other
\* createBundle failure, the refusal without a filter included, is answered
\* InternalError.
C7_FilteredRefusalIsNoContent ==
    (Done("pull") /\ LastCall.op = "createBundle") =>
        /\ (LastCall.res = "refuse" /\ Filtered(req.opt)) => resp.status = StatusNoContent
        /\ (EmptyWindow /\ ~req.faulted) => LastCall.res = "refuse"
        /\ (LastCall.res = "other" \/ ~Filtered(req.opt))
              => resp.status = StatusInternalServerError

C7_Witness ==
    /\ Done("pull") /\ LastCall = Call("createBundle", "refuse") /\ ~req.faulted
    /\ req.opt.Since = 0 /\ req.opt.After > CommitTime(mirror.tip)
    /\ resp.status = StatusNoContent

\* C8: a pull whose listHeads gave no head, more than one head or a parse
\* error is answered InternalError (500) and carries neither bundle bytes nor
\* head, partial flag or hash; a pull succeeds only when exactly one head was
\* listed.
C8_OneHeadOrInternalError ==
    Done("pull") =>
        /\ (LastCall.op = "listHeads" /\ LastCall.res # "1")
              => /\ resp.status = StatusInternalServerError
                 /\ ~resp.bytes /\ resp.head = "" /\ resp.partial = "" /\ resp.hash = <<>>
        /\ resp.status = StatusOK
              => (LastCall = Call("listHeads", "1") /\ Len(req.heads) = 1)

C8_Witness ==
    /\ Done("pull") /\ LastCall = Call("listHeads", "2") /\ Len(req.heads) = 2
    /\ resp.status = StatusInternalServerError /\ ~resp.bytes

\* C9: a pull answered Success carries the commit ID of the single listed
\* head, a partial flag that is true exactly when a since or after filter was
\* requested, the hash, and the bundle bytes; a pull answered anything else
\* carries no bundle bytes.
C9_SuccessCarriesMetadata ==
    Done("pull") =>
        /\ resp.status = StatusOK
              => /\ Len(req.heads) = 1
                 /\ resp.head = req.heads[1].CommitID /\ resp.head # ""
                 /\ resp.partial = (IF Filtered(req.opt) THEN "true" ELSE "false")
                 /\ resp.hash # <<>>
                 /\ resp.bytes /\ resp.bundle = req.data /\ resp.bundle.ok
        /\ resp.status # StatusOK => ~resp.bytes

C9_Witness ==
    /\ Done("pull") /\ resp.status = StatusOK
    /\ req.opt.Since = 0 /\ req.opt.After # 0 /\ resp.partial = "true"
    /\ resp.head = CommitID(mirror.tip)

\* C10: in a pull, createBundle is invoked only after syncToLocal reported a
\* ready mirror, then hasLocalBranch answered true, then hasLocalCommits
\* answered true; a branch found absent is answered NoContent("branch not
\* found"), a branch found without commit NoContent("no commits"), and a
\* failure of either probe InternalError.
C10_BundleOnlyAfterProbes ==
    req.kind = "pull" =>
        /\ Called("createBundle")
              => /\ Len(req.calls) >= 4
                 /\ req.calls[1] = Call("sync", "ready")
                 /\ req.calls[2] = Call("hasLocalBranch", "true")
                 /\ req.calls[3] = Call("hasLocalCommits", "true")
                 /\ req.calls[4].op = "createBundle"
        /\ (req.pc = "done" /\ LastCall.op = "hasLocalBranch")
              => /\ (~req.faulted /\ ~hasLocalBranch(mirror)) => LastCall.res = "false"
                 /\ LastCall.res = "false"
                       => (resp.status = StatusNoContent /\ resp.text = "branch not found")
                 /\ LastCall.res = "other" => resp.status = StatusInternalServerError
        /\ (req.pc = "done" /\ LastCall.op = "hasLocalCommits")
              => /\ (~req.faulted /\ BranchTip(mirror) = 0) => LastCall.res = "false"
                 /\ LastCall.res = "false"
                       => (resp.status = StatusNoContent /\ resp.text = "no commits")
                 /\ LastCall.res = "other" => resp.status = StatusInternalServerError

C10_Witness ==
    /\ Done("pull") /\ Called("createBundle") /\ resp.status = StatusOK
    /\ Ops = <<"sync", "hasLocalBranch", "hasLocalCommits", "createBundle", "listHeads">>

\* C11: GetBundleInfo returns no error exactly when "git bundle verify" ran and
\* the BundleInfo is well-formed (IsOkay), names a contained ref, and is complete
\* or names a required ref; a partial bundle that names its required ref is
\* accepted, one that names none is rejected.
C11_ValidateAcceptsUsable ==
    (probe.fn = "GetBundleInfo" /\ probe.done) =>
        LET b == ParseBundleVerifyOutput(probe.arg.output)
        IN  probe.out.err = "nil"
              <=> /\ ~probe.arg.cmdFails
                  /\ b.IsOkay /\ b.ContainsRef # ""
                  /\ (b.IsComplete \/ b.RequiresRef # "")

\* C12: the resolver is injective on (url, branch): two keys under the same
\* root resolve to the same mirror directory exactly when they are the same key.
C12_WorkDirInjective ==
    (probe.fn = "getWorkDir" /\ probe.done)
        => (probe.out[1] = probe.out[2] <=> probe.arg.a = probe.arg.b)

\* C13: of two requests for the same key served at once, never both are inside
\* a mirror-mutating step (exists-check, clone/init/pull, applyBundle,
\* pushToRemote) at the same time.
C13_SameKeySerialized ==
    \A i, j \in DOMAIN inflight :
        i # j => ~(/\ inflight[i].pc \in {"exists", "fetch", "apply", "pushToRemote"}
                   /\ inflight[j].pc \in {"exists", "fetch", "apply", "pushToRemote"})

\* C14: once ApplyBundleToLocal has returned, whichever way (the temporary
\* file not created, the copy failed, git failed, success), nothing of what it
\* created under the scratch root is left.
C14_ScratchRemoved ==
    (req.kind = "push" /\ Called("apply")) => req.scratch.left = {}

C14_Witness ==
    /\ Done("push") /\ LastCall = Call("apply", "other")
    /\ req.scratch.made = {"dir"} /\ req.scratch.left = {}

\* C15: a pull repeated with the same options while the remote does not change
\* is answered as the first one was, by the state of the remote (absent:
\* NotFound, without commits: NoContent, with commits: Success, or NoContent
\* under a filter), and never InternalError (the token being valid, and no
\* operation so far having failed for a reason of its own).
C15_PullRetrySafe ==
    (prev.was = "pull" /\ Done("pull") /\ req.opt = prev.opt
        /\ req.token = "good" /\ ~faulty)
        => /\ resp.status # StatusInternalServerError
           /\ ~req.r0.exists => resp.status = StatusNotFound
           /\ (req.r0.exists /\ req.r0.tip = 0) => resp.status = StatusNoContent
           /\ (req.r0.exists /\ req.r0.tip > 0)
                 => /\ resp.status \in {StatusOK, StatusNoContent}
                    /\ ~Filtered(req.opt) => resp.status = StatusOK
           /\ ~Filtered(req.opt) => resp.status = prev.status

\* C16: after a complete bundle with head commit c was pushed with Success to
\* a remote that existed and had no commit, an unfiltered pull of the same key
\* is answered Success with head commit ID c (the token being valid, no
\* operation of the pull failing for a reason of its own).
C16_PushThenPullRoundTrip ==
    (prev.kind = "push" /\ prev.empty /\ prev.bundle.ok /\ prev.bundle.prereq = 0
        /\ Done("pull") /\ ~Filtered(req.opt) /\ req.token = "good" /\ ~req.faulted)
        => /\ resp.status = StatusOK
           /\ resp.head = CommitID(prev.bundle.tip)
           /\ resp.bundle = prev.bundle

C16_Witness ==
    /\ prev.kind = "push" /\ prev.empty /\ prev.bundle.prereq = 0 /\ prev.bundle.tip = 2
    /\ Done("pull") /\ ~Filtered(req.opt) /\ req.token = "good" /\ ~req.faulted
    /\ resp.status = StatusOK /\ resp.head = CommitID(2)

\* C17: the text of an answer other than Success and NoContent carries neither
\* the standard error of a git process, nor its exit code, nor the token.
C17_TextHidesDiagnostics ==
    (req.pc = "done" /\ resp.status \notin {StatusOK, StatusNoContent})
        => resp.shows \cap {"StdErr", "ExitCode", "Token"} = {}

\* C18: a credential the remote rejects, as "authentication required" or as
\* "authorization failed", on the clone path or on the pull path, makes
\* SyncRepoToLocalTemp report ErrAuthFailed; PushLocalToRemote reports both
\* forms as ErrAuthFailed too.
C18_RejectionIsAuthFailed ==
    /\ (Len(req.calls) = 1 /\ req.calls[1].op = "sync" /\ ~req.faulted
            /\ req.xport \in {"authn", "authz"}
            /\ (ExistsLocal(req.m0) => req.m0.stage >= 2))
          => req.calls[1].res = "auth"
    /\ \A x \in {"authn", "authz"} :
          PushLocalToRemote(mirror, remote, x, FALSE).err = "auth"

\* C19: a request that lacks a repository URL, a branch or a usable token is
\* answered 400, never 500, and no operation on the mirror is performed for it.
C19_LackingIsBadRequest ==
    (/\ req.pc = "done"
     /\ \/ req.args.repository = "" \/ req.args.branch = ""
        \/ req.args.auth.scheme # "Bearer" \/ req.args.auth.token = "")
        => /\ resp.status = StatusBadRequest
           /\ req.calls = <<>> /\ mirror = req.m0

\* C20: a pull is answered 401 exactly when SyncRepoToLocalTemp reported
\* ErrAuthFailed; a pull with a token that is not valid, read by a remote that
\* answers it all the same, ends as the pull with a valid token does: Success
\* with the head of the branch when the remote has commits and no filter is set
\* (no operation having failed for a reason of its own so far).
C20_UnauthorizedIffSyncAuth ==
    /\ Done("pull")
          => (resp.status = StatusUnauthorized
                <=> (Called("sync") /\ req.calls[1].res = "auth"))
    /\ (Done("pull") /\ Called("sync") /\ req.token = "bad" /\ ~faulty
            /\ req.xport = FetchAnswer(req.r0) /\ req.r0.tip > 0 /\ ~Filtered(req.opt))
          => /\ resp.status = StatusOK
             /\ resp.head = CommitID(Max(req.m0.tip, req.r0.tip))

C20_Witness ==
    /\ Done("pull") /\ req.token = "bad" /\ ~faulty
    /\ req.xport = "ok" /\ resp.status = StatusOK /\ resp.head = CommitID(2)

\* whether path p lies n elements below the scratch root
Below(p, n) ==
    /\ Len(p) = Len(TempDir) + n
    /\ SubSeq(p, 1, Len(TempDir)) = TempDir
    /\ \A i \in 1..Len(p) : p[i] # <<46, 46>>

\* C21: for every URL and branch, '/' and ".." included, the mirror directory
\* is a direct child of the scratch root, and the scratch directory and the
\* bundle file of ApplyBundleToLocal lie under the root.
C21_PathsUnderRoot ==
    (probe.fn = "paths" /\ probe.done)
        => /\ Below(probe.out.workDir, 1)
           /\ Below(probe.out.dir, 1)
           /\ Below(probe.out.file, 2)

C21_Witness ==
    /\ probe.fn = "paths" /\ probe.done
    /\ probe.arg.url = <<46, 46>> /\ probe.arg.branch = <<47>>
    /\ Below(probe.out.workDir, 1) /\ Below(probe.out.file, 2)

\* C22: when the caller cancels while a git process of the request runs, that
\* process is the last step of the request: it fails and no later step runs.
C22_CancelStopsRequest ==
    req.cancelAt # 0
        => /\ Len(req.calls) <= req.cancelAt
           /\ (Len(req.calls) = req.cancelAt => req.pc = "done" /\ resp.status # StatusOK)

C24_NoRetries ==
    /\ \A i, j \in 1..Len(req.calls) : i # j => req.calls[i].op # req.calls[j].op
    /\ \A i \in 1..Len(req.calls) :
          req.calls[i].res \in {"other", "auth", "prereq", "refuse", "parse"}
              => (i = Len(req.calls) /\ req.pc = "done" /\ resp.status >= StatusNoContent)
    /\ (req.pc = "done") <=> (resp # NoResp)

C24_Witness ==
    /\ Done("pull") /\ Ops = <<"sync", "hasLocalBranch", "hasLocalCommits", "createBundle">>
    /\ LastCall.res = "other" /\ resp.status = StatusInternalServerError

\* a step that is the sync of a request
SyncStep == req.pc = "sync" /\ Len(req'.calls) = 1

\* C25: sync chooses by local presence: with a repository at workDir it only
\* pulls (the repository is neither cloned nor initialised again), without
\* one it only clones, or initialises on an empty remote; no other step creates
\* a mirror, and no step of a push or pull deletes or recreates one.
C25_MirrorKept ==
    [][/\ ExistsLocal(mirror)
             => (mirror'.stage = mirror.stage /\ mirror'.tip >= mirror.tip)
       /\ (~ExistsLocal(mirror) /\ mirror' # mirror)
             => /\ SyncStep
                /\ \E f \in 0..4 :
                      mirror' = cloneRepoToLocalTemp(remote, req'.xport, f).mirror
       /\ (SyncStep /\ ExistsLocal(mirror) /\ mirror' # mirror)
             => mirror' = pullRepoToLocalTemp(mirror, remote, req'.xport, FALSE).mirror
      ]_vars

C25_Witness ==
    /\ Done("pull") /\ req.m0.stage = 4 /\ Called("sync")
    /\ req.calls[1] = Call("sync", "ready")
    /\ mirror.stage = 4 /\ mirror.tip > req.m0.tip /\ req.m0.tip > 0

\* C26: after a push ended in Conflict, a push of a complete bundle to the same
\* key succeeds, the remote empty or not; and after a complete bundle was
\* pushed, a partial bundle whose prerequisite it supplies succeeds (the token
\* being valid, no operation having failed for a reason of its own).
C26_ConflictThenCompleteSucceeds ==
    /\ (prev.was = "push" /\ prev.status = StatusConflict /\ Done("push")
            /\ req.bundle.ok /\ req.bundle.prereq = 0
            /\ req.r0.exists /\ req.token = "good" /\ ~faulty)
          => resp.status = StatusOK
    /\ (prev.kind = "push" /\ prev.bundle.ok /\ prev.bundle.prereq = 0 /\ Done("push")
            /\ req.bundle.ok /\ req.bundle.prereq > 0
            /\ req.bundle.prereq <= prev.bundle.tip
            /\ req.token = "good" /\ ~faulty)
          => resp.status = StatusOK

\* C27: initialisation on an empty remote creates the repository, registers the
\* remote, creates the branch configuration and points HEAD at the branch, in
\* this order and without a commit; a failing step ends it with an error and
\* the later steps not run; on success the mirror is ready, hasLocalBranch is
\* true and hasLocalCommits is false.
C27_OrphanInit ==
    (Len(req.calls) = 1 /\ req.calls[1].op = "sync"
        /\ ~ExistsLocal(req.m0) /\ req.xport = "empty")
        => /\ mirror.tip = 0
           /\ req.calls[1].res \in {"ready", "other"}
           /\ req.calls[1].res = "ready"
                 => /\ mirror = [stage |-> 4, tip |-> 0]
                    /\ hasLocalBranch(mirror) /\ ~hasLocalCommits(mirror)
                    /\ ~req.faulted
           /\ req.calls[1].res = "other"
                 => /\ mirror.stage < 4 /\ req.pc = "done" /\ req.faulted
                    /\ (hasLocalBranch(mirror) => mirror.stage = 3)

C27_Witness ==
    /\ Done("pull") /\ req.m0 = NoMirror /\ req.xport = "empty"
    /\ Ops = <<"sync", "hasLocalBranch", "hasLocalCommits">>
    /\ req.calls[1].res = "ready" /\ req.calls[2].res = "true" /\ LastCall.res = "false"
    /\ mirror = [stage |-> 4, tip |-> 0] /\ resp.status = StatusNoContent

\* the commits of the branch older than time t
OlderThan(t) == {c \in 1..BranchTip(mirror) : CommitTime(c) < t}

\* C28: a bundle is created under one filter at most: the since window when
\* Since is set, After set or not; else the after cutoff when After is set;
\* else none; and it always ends at the tip of the tracked branch.
C28_OneFilter ==
    (Done("pull") /\ resp.status = StatusOK /\ ~req.faulted)
        => /\ resp.bundle.tip = BranchTip(mirror)
           /\ resp.bundle.prereq =
                 Cardinality(OlderThan(IF req.opt.Since # 0 THEN req.now - req.opt.Since
                                       ELSE req.opt.After))

C28_Witness ==
    /\ Done("pull") /\ resp.status = StatusOK /\ ~req.faulted
    /\ req.opt.Since # 0 /\ req.opt.After # 0
    /\ resp.bundle.prereq = Cardinality(OlderThan(req.now - req.opt.Since))
    /\ resp.bundle.prereq # Cardinality(OlderThan(req.opt.After))

\* C29: two successful pulls return equal hashes exactly when their head commit
\* IDs are equal and the filter applied to the creation of the bundle has the
\* same kind and value; an after value given next to a since value, and so not
\* applied, has no part in the hash.
C29_HashOfAppliedFilter ==
    (prev.kind = "pull" /\ Done("pull") /\ resp.status = StatusOK)
        => (resp.hash = prev.hash
              <=> (resp.head = prev.head
                     /\ BundleFilter(req.opt) = BundleFilter(prev.opt)))

\* the fields of a line: its maximal runs of characters other than space and tab
RECURSIVE Fields(_, _)
Fields(line, cur) ==
    IF Len(line) = 0 THEN (IF cur = <<>> THEN <<>> ELSE <<cur>>)
    ELSE IF line[1] \in {9, 32}
    THEN (IF cur = <<>> THEN <<>> ELSE <<cur>>) \o Fields(Tail(line), <<>>)
    ELSE Fields(Tail(line), Append(cur, line[1]))

\* the result the parsing of a text is to have: the pairs of the lines when
\* every line has two fields, otherwise a parse error and no head
HeadsByFields(text) ==
    LET lines == ScanLines(text)
    IN  IF \A i \in 1..Len(lines) : Len(Fields(lines[i], <<>>)) = 2
        THEN [err |-> "nil",
              heads |-> [i \in 1..Len(lines) |->
                           [CommitID |-> Fields(lines[i], <<>>)[1],
                            Ref |-> Fields(lines[i], <<>>)[2]]]]
        ELSE [err |-> "parse", heads |-> <<>>]

\* C30: ParseBundleListHeadsOutput returns the (commitID, ref) pairs of the
\* lines in their order when every line has exactly two whitespace-separated
\* fields, a parse error and no head when a line has another shape, and the
\* empty list for the empty output.
C30_ListHeadsParsing ==
    (probe.fn = "listHeads" /\ probe.done) => probe.out = HeadsByFields(probe.arg)

\* the positions of the lines of a kind in a report
LinesOf(report, kind) == {i \in 1..Len(report) : report[i].kind = kind}

\* the text of the line after the last declaration of a kind ("" without one)
RefAfterLast(report, kind) ==
    LET S == LinesOf(report, kind)
        last == CHOOSE i \in S : \A j \in S : j <= i
    IN  IF S = {} \/ last = Len(report) THEN "" ELSE LineText(report[last + 1])

\* C31: of a report, ContainsRef is the line after the last "contains this ref"
\* declaration and RequiresRef the line after the last "requires this ref"
\* declaration, IsComplete says that a "complete history" line occurs,
\* HashAlgorithm is the text after the prefix of the hash line, IsOkay says that
\* a line ends in " is okay"; a marker right after a declaration counts too.
C31_VerifyReportParsing ==
    (probe.fn = "ParseBundleVerifyOutput" /\ probe.done) =>
        LET r == probe.arg
        IN  /\ probe.out.ContainsRef = RefAfterLast(r, "contains")
            /\ probe.out.RequiresRef = RefAfterLast(r, "requires")
            /\ probe.out.IsComplete = (LinesOf(r, "complete") # {})
            /\ probe.out.IsOkay = (LinesOf(r, "okay") # {})
            /\ probe.out.HashAlgorithm =
                  (IF LinesOf(r, "hash") = {} THEN ""
                   ELSE r[CHOOSE i \in LinesOf(r, "hash") :
                                 \A j \in LinesOf(r, "hash") : j <= i].text)

\* C32: the 204 of a filter that matched no commit names the cutoff of the
\* filter that was applied: now minus the lookback under a since filter, the
\* requested timestamp under an after filter.
C32_ReasonNamesCutoff ==
    (Done("pull") /\ resp.status = StatusNoContent
        /\ resp.text = "no new commits since" /\ ~req.faulted)
        => resp.since = Cutoff(BundleFilter(req.opt), req.now)

\* C33: a request adds one to the error counter of its operation exactly when
\* its outcome is not Success, a push answered 200 adds nothing to it, and
\* every request adds exactly one to the operation counter.
C33_ErrorCounted ==
    req.pc = "done"
        => /\ req.errs = (IF resp.status = StatusOK THEN 0 ELSE 1)
           /\ req.ops = 1

\* C34: of ApplyBundleToLocal calls running side by side, none uses or removes
\* the scratch directory of another: a directory in use exists and belongs to
\* one call, a call whose os.Mkdir failed removes nothing, and the name of a
\* scratch directory is never the name of a mirror directory.
C34_ScratchDirsApart ==
    /\ \A i \in DOMAIN inflight :
          inflight[i].pc \in Holding
              => (inflight[i].dir \in tempDirs /\ inflight[i].dir \notin MirrorDirs)
    /\ \A i, j \in DOMAIN inflight :
          (i # j /\ inflight[i].pc \in Holding /\ inflight[j].pc \in Holding)
              => inflight[i].dir # inflight[j].dir
    /\ MirrorDirs \subseteq tempDirs
    /\ RandomStrings \cap MirrorDirs = {}

C34_Witness ==
    /\ inflight[1].pc = "git" /\ inflight[2].pc = "failed"
    /\ inflight[2].dir = inflight[1].dir /\ inflight[1].dir \in tempDirs

\* how far push and pull have come, by the order of their statements
Progress(pc) ==
    CASE pc = "idle"            -> 0
      [] pc = "sync"            -> 1
      [] pc = "hasLocalBranch"  -> 2
      [] pc = "hasLocalCommits" -> 3
      [] pc = "createBundle"    -> 4
      [] pc = "listHeads"       -> 5
      [] pc = "apply"           -> 2
      [] pc = "push"            -> 3
      [] OTHER                  -> 6

\* C35: when every operation returns, every push and every pull comes to an
\* end with one of the seven outcomes: a request only moves forward through
\* the statements of its handler, a status is written exactly when the handler
\* is done, and it stays as written until the handler has returned.
C35_OneOutcome ==
    /\ [](req.pc = "done" <=> resp.status # 0)
    /\ [](req.pc = "done"
            => resp.status \in {StatusBadRequest, StatusNotFound, StatusUnauthorized,
                                StatusConflict, StatusNoContent,
                                StatusInternalServerError, StatusOK})
    /\ [][req.pc = "done" => (resp' = resp \/ req'.pc = "idle")]_vars
    /\ [][(req.pc # "done" /\ req' # req) => Progress(req'.pc) > Progress(req.pc)]_vars
    /\ (req.pc # "idle") ~> (req.pc = "done")

C35_Witness ==
    /\ req.pc = "done" /\ req.kind = "pull" /\ Len(req.calls) = 5
    /\ resp.status = StatusOK

\* C36: a git process that fails makes its operation return a CommandError
\* with the error of cmd.Run(), the operation's message, the exit code and
\* all of stderr; Unwrap gives the error of cmd.Run(), and the value returned
\* next to it is empty.
C36_CommandErrorCarriesAll ==
    (probe.fn = "run" /\ probe.done /\ probe.arg.run.err # "nil")
        => /\ probe.out.error.type = "CommandError"
           /\ probe.out.error.Err = probe.arg.run.err
           /\ Unwrap(probe.out.error) = probe.arg.run.err
           /\ probe.out.error.Message = FailureMessage(probe.arg.op)
           /\ probe.out.error.Message # ""
           /\ probe.out.error.ExitCode = ExitCode(probe.arg.run)
           /\ probe.out.error.StdErr = probe.arg.run.stderr
           /\ probe.out.value = ZeroValue(probe.arg.op)

C36_Witness ==
    /\ probe.fn = "run" /\ probe.done /\ probe.arg.op = "GetBundleInfo"
    /\ probe.arg.run.err = "exit" /\ probe.arg.run.status = 128
    /\ probe.arg.run.stderr = {PrereqMarker}
    /\ Len(probe.arg.run.stdout) > 0
    /\ probe.out.error.StdErr = {PrereqMarker} /\ probe.out.value = NoBundleInfo

====
